---- MODULE Spec2Model ----
(***************************************************************************)
(* Zephara Xcel Home Financing Simulator (src/ZX.py).                      *)
(*                                                                         *)
(* main() reads six numbers from the sidebar, validates them, runs         *)
(* zx_simulator and traditional_loan_simulator and displays the results.   *)
(* The model follows the control flow of main() and of the two simulators  *)
(* statement by statement; one loop iteration is one action.               *)
(*                                                                         *)
(* Numbers.  Python evaluates the formulas in binary floating point.  The  *)
(* model evaluates the same expressions, in the same order, in exact       *)
(* rational arithmetic: a number is a reduced fraction whose numerator and *)
(* denominator are naturals of arbitrary size (sequences of limbs), since  *)
(* (1 + r)**T for T = 12 months does not fit a machine integer.  What the  *)
(* model says about equalities therefore holds of the program "within      *)
(* tolerance"; rounding itself is outside the model.                       *)
(***************************************************************************)
EXTENDS Integers, Sequences, FiniteSets, TLC

\* ------------------------------------------------------------------------
\* Evaluation order.  Let(e, F) is F(e) with e evaluated once, before F.
\* ------------------------------------------------------------------------
Let(e, F(_)) == CHOOSE z \in {F(v) : v \in {e}} : TRUE
Let2(e1, e2, F(_, _)) == CHOOSE z \in {F(u, v) : u \in {e1}, v \in {e2}} : TRUE

\* ------------------------------------------------------------------------
\* Naturals of arbitrary size: little-endian sequences of limbs, no leading
\* zero limb, <<>> is 0.  The first test of a recursive operator reads its
\* accumulators, so that they are evaluated level by level.
\* ------------------------------------------------------------------------
Base == 10 * 10 * 10

Limb(a, i) == IF i <= Len(a) THEN a[i] ELSE 0
Max(x, y) == IF x >= y THEN x ELSE y
Min(x, y) == IF x <= y THEN x ELSE y

RECURSIVE TopLen(_, _)
TopLen(s, k) == IF k = 0 THEN 0 ELSE IF s[k] # 0 THEN k ELSE TopLen(s, k - 1)
Trim(s) == SubSeq(s, 1, TopLen(s, Len(s)))

RECURSIVE NFromInt(_)
NFromInt(k) == IF k = 0 THEN <<>> ELSE <<k % Base>> \o NFromInt(k \div Base)

RECURSIVE NCmpAt(_, _, _)
NCmpAt(a, b, i) ==
  IF i = 0 THEN 0
  ELSE IF a[i] > b[i] THEN 1
  ELSE IF a[i] < b[i] THEN -1
  ELSE NCmpAt(a, b, i - 1)
NCmp(a, b) ==
  IF Len(a) > Len(b) THEN 1
  ELSE IF Len(a) < Len(b) THEN -1
  ELSE NCmpAt(a, b, Len(a))

\* the limbs i.. of a + b, with carry c into limb i
RECURSIVE NAddAt(_, _, _, _, _)
NAddAt(a, b, i, c, acc) ==
  IF c + Len(acc) < 0 THEN acc
  ELSE IF i > Max(Len(a), Len(b)) THEN (IF c = 0 THEN acc ELSE Append(acc, c))
  ELSE NAddAt(a, b, i + 1, (Limb(a, i) + Limb(b, i) + c) \div Base,
              Append(acc, (Limb(a, i) + Limb(b, i) + c) % Base))
NAdd(a, b) == NAddAt(a, b, 1, 0, <<>>)

\* a - b for a >= b
RECURSIVE NSubAt(_, _, _, _, _)
NSubAt(a, b, i, c, acc) ==
  IF c + Len(acc) < 0 THEN acc
  ELSE IF i > Len(a) THEN Trim(acc)
  ELSE IF a[i] - Limb(b, i) - c < 0
       THEN NSubAt(a, b, i + 1, 1, Append(acc, a[i] - Limb(b, i) - c + Base))
       ELSE NSubAt(a, b, i + 1, 0, Append(acc, a[i] - Limb(b, i) - c))
NSub(a, b) == NSubAt(a, b, 1, 0, <<>>)

\* a * k for one limb k
RECURSIVE NMulSAt(_, _, _, _, _)
NMulSAt(a, k, i, c, acc) ==
  IF c + Len(acc) < 0 THEN acc
  ELSE IF i > Len(a) THEN (IF c = 0 THEN acc ELSE Append(acc, c))
  ELSE NMulSAt(a, k, i + 1, (a[i] * k + c) \div Base, Append(acc, (a[i] * k + c) % Base))
NMulS(a, k) == IF k = 0 THEN <<>> ELSE NMulSAt(a, k, 1, 0, <<>>)

Shift(a, k) == IF a = <<>> THEN a ELSE [i \in 1..k |-> 0] \o a

RECURSIVE NMulAt(_, _, _, _)
NMulAt(a, b, i, acc) ==
  IF Len(acc) < 0 THEN acc
  ELSE IF i > Len(b) THEN acc
  ELSE NMulAt(a, b, i + 1, NAdd(acc, Shift(NMulS(a, b[i]), i - 1)))
NMul(a, b) == NMulAt(a, b, 1, <<>>)

\* the largest d in lo..hi with b * d <= r
RECURSIVE QDigit(_, _, _, _)
QDigit(r, b, lo, hi) ==
  IF lo >= hi THEN lo
  ELSE IF NCmp(NMulS(b, (lo + hi + 1) \div 2), r) <= 0
       THEN QDigit(r, b, (lo + hi + 1) \div 2, hi)
       ELSE QDigit(r, b, lo, (lo + hi + 1) \div 2 - 1)

\* one quotient limb of r \div b (r < b * Base), bracketed from the leading limbs
Top3(r, k) == (Limb(r, k + 1) * Base + Limb(r, k)) * Base + Limb(r, k - 1)
Top2(b, k) == b[k] * Base + b[k - 1]
QEst(r, b) ==
  IF Len(b) = 1 THEN (Limb(r, 2) * Base + Limb(r, 1)) \div b[1]
  ELSE QDigit(r, b, Top3(r, Len(b)) \div (Top2(b, Len(b)) + 1),
                    Min(Base - 1, Top3(r, Len(b)) \div Top2(b, Len(b))))

\* r - b * (r \div b) for r < b * Base, with the quotient limb
DivStep(r, b) ==
  IF NCmp(r, b) < 0 THEN [d |-> 0, r |-> r]
  ELSE Let(QEst(r, b), LAMBDA d : [d |-> d, r |-> NSub(r, NMulS(b, d))])

\* long division, from limb i of a down, r the remainder so far
RECURSIVE NDivAt(_, _, _, _, _)
NDivAt(a, b, i, r, q) ==
  IF Len(r) + Len(q) < 0 THEN [q |-> q, r |-> r]
  ELSE IF i = 0 THEN [q |-> Trim(q), r |-> r]
  ELSE Let(DivStep(Trim(<<a[i]>> \o r), b), LAMBDA s :
         NDivAt(a, b, i - 1, s.r, <<s.d>> \o q))

\* quotient and remainder of a by b, b # 0
NDivMod(a, b) ==
  IF Len(a) < Len(b) THEN [q |-> <<>>, r |-> a]
  ELSE NDivAt(a, b, Len(a) - Len(b) + 1, SubSeq(a, Len(a) - Len(b) + 2, Len(a)), <<>>)
NDiv(a, b) == IF b = <<1>> THEN a ELSE NDivMod(a, b).q

\* Euclid's algorithm on the pair p, 2^k steps of it at most
RECURSIVE EuclidSteps(_, _)
EuclidSteps(k, p) ==
  IF p[2] = <<>> THEN p
  ELSE IF k = 0 THEN <<p[2], NDivMod(p[1], p[2]).r>>
  ELSE EuclidSteps(k - 1, EuclidSteps(k - 1, p))
\* a pair of L-limb numbers needs fewer than 15 * L + 2 <= 2^(L + 4) steps
NGcd(a, b) == EuclidSteps(Min(Len(a), Len(b)) + 4, <<a, b>>)[1]

\* ------------------------------------------------------------------------
\* Rationals: [s |-> sign, n |-> numerator, d |-> denominator], reduced, so
\* that equal numbers are equal records.
\* ------------------------------------------------------------------------
R0 == [s |-> 0, n |-> <<>>, d |-> <<1>>]
RFrac(a, b) ==
  IF a = 0 THEN R0
  ELSE Let2(NFromInt(IF a < 0 THEN -a ELSE a), NFromInt(b), LAMBDA na, nb :
       Let(NGcd(na, nb), LAMBDA g :
         [s |-> IF a < 0 THEN -1 ELSE 1, n |-> NDiv(na, g), d |-> NDiv(nb, g)]))
RInt(a) == RFrac(a, 1)
R1 == RInt(1)

RNeg(x0) == Let(x0, LAMBDA x : [x EXCEPT !.s = -x.s])

\* x + y for x, y # 0, over the least common denominator
RAddV(x, y) ==
  Let(NGcd(x.d, y.d), LAMBDA g :
  Let2(NDiv(x.d, g), NDiv(y.d, g), LAMBDA xd, yd :
  Let2(NMul(x.n, yd), NMul(y.n, xd), LAMBDA a, b :
  Let(NCmp(a, b), LAMBDA c :
  Let(IF x.s = y.s THEN NAdd(a, b) ELSE IF c > 0 THEN NSub(a, b) ELSE NSub(b, a),
      LAMBDA mag :
    IF mag = <<>> THEN R0
    ELSE Let(NGcd(mag, g), LAMBDA g2 :
           [s |-> IF x.s = y.s \/ c > 0 THEN x.s ELSE y.s,
            n |-> NDiv(mag, g2),
            d |-> NMul(xd, NDiv(y.d, g2))]))))))
RAdd(x0, y0) ==
  Let2(x0, y0, LAMBDA x, y :
    IF x.s = 0 THEN y ELSE IF y.s = 0 THEN x ELSE RAddV(x, y))
RSub(x, y) == RAdd(x, RNeg(y))

RMul(x0, y0) ==
  Let2(x0, y0, LAMBDA x, y :
    IF x.s = 0 \/ y.s = 0 THEN R0
    ELSE Let2(NGcd(x.n, y.d), NGcd(y.n, x.d), LAMBDA g1, g2 :
           [s |-> x.s * y.s,
            n |-> NMul(NDiv(x.n, g1), NDiv(y.n, g2)),
            d |-> NMul(NDiv(x.d, g2), NDiv(y.d, g1))]))

\* x / y for y # 0; the callers test y for zero first (ZeroDivisionError)
RDiv(x, y0) == Let(y0, LAMBDA y : RMul(x, [s |-> y.s, n |-> y.d, d |-> y.n]))

\* x ** k for an integer k >= 0
RECURSIVE RPowV(_, _)
RPowV(x, k) == IF k = 0 THEN R1 ELSE RMul(x, RPowV(x, k - 1))
RPow(x0, k0) == Let2(x0, k0, LAMBDA x, k : RPowV(x, k))

RSign(x) == x.s
RLt(x, y) == RSign(RSub(x, y)) < 0
RLe(x, y) == RSign(RSub(x, y)) <= 0

RECURSIVE RSumAt(_, _, _)
RSumAt(col, i, acc) ==
  IF i > Len(col) THEN acc
  ELSE Let(RAdd(acc, col[i]), LAMBDA acc2 : RSumAt(col, i + 1, acc2))

\* ------------------------------------------------------------------------
\* The program
\* ------------------------------------------------------------------------
MonthsPerYear == 12
Percent == 100

\* bounds of the inputs explored
MaxYears == 1
MaxMonths == 3

VARIABLES
  pc,                             \* where control is
  traceback,                      \* the uncaught exception, "" when none
  property_price,                 \* main: the six sidebar inputs
  customer_initial_contribution,
  annual_rental_yield,
  zx_loan_tenure_years,
  traditional_interest_rate,
  traditional_loan_tenure_years,
  zx_loan_tenure_months,          \* main: tenures in months
  traditional_loan_tenure_months,
  traditional_principal_amount,
  zx,                             \* the frame of zx_simulator: parameters and locals
  trad,                           \* the frame of traditional_loan_simulator
  zx_simulation_df, zx_metrics,   \* main: what the simulators returned
  traditional_simulation_df, traditional_metrics,
  metrics_data, total_savings,    \* main: the comparison table and the savings line
  simulation_data_xlsx            \* download_data: the file written

inputs == <<property_price, customer_initial_contribution, annual_rental_yield,
            zx_loan_tenure_years, traditional_interest_rate,
            traditional_loan_tenure_years>>
months == <<zx_loan_tenure_months, traditional_loan_tenure_months>>
zx_results == <<zx_simulation_df, zx_metrics>>
trad_results == <<traditional_simulation_df, traditional_metrics>>
shown == <<metrics_data, total_savings, simulation_data_xlsx>>
vars == <<pc, traceback, inputs, months, traditional_principal_amount, zx, trad,
          zx_results, trad_results, shown>>

\* a name of main that is not bound yet is <<>>, a bound one is <<value>>
Unbound == <<>>
Bound(v) == <<v>>

\* the frames before the call
ZxFrame0 ==
  [property_price |-> R0, customer_initial_contribution |-> R0,
   annual_rental_yield |-> R0, loan_tenure_months |-> 0,
   nbfc_initial_contribution |-> R0, monthly_rental_rate |-> R0, T |-> 0, r |-> R0,
   EMI |-> R0, n |-> 0,
   months |-> <<>>, emi_list |-> <<>>, rental_income_list |-> <<>>,
   buyback_amount_list |-> <<>>, nbfc_share_percentage_list |-> <<>>,
   customer_share_percentage_list |-> <<>>, nbfc_share_value_list |-> <<>>,
   customer_share_value_list |-> <<>>,
   nbfc_share_value |-> R0, customer_share_value |-> R0]

TradFrame0 ==
  [principal_amount |-> R0, annual_interest_rate |-> R0, loan_tenure_months |-> 0,
   r |-> R0, T |-> 0, EMI |-> R0, n |-> 0,
   months |-> <<>>, emi_list |-> <<>>, interest_paid_list |-> <<>>,
   principal_paid_list |-> <<>>, outstanding_balance_list |-> <<>>,
   outstanding_balance |-> R0]

\* ---- inputs ------------------------------------------------------------
\* number_input returns what the user typed: nothing restricts the numbers.
\* The two rates are typed in percent and divided by 100 on the spot; the
\* tenures are integers (value=20, step=1).
PropertyPriceInputs == {RInt(0), RInt(100)}
ContributionInputs == {RInt(-20), RInt(20), RInt(100)}
RentalYieldPercentInputs == {RInt(0), RInt(60), RInt(100)}
InterestRatePercentInputs == {RInt(0), RInt(60)}
TenureYearsInputs == 0..MaxYears

Init ==
  /\ pc = "main"
  /\ traceback = ""
  /\ property_price \in PropertyPriceInputs
  /\ customer_initial_contribution \in ContributionInputs
  /\ annual_rental_yield \in {RDiv(p, RInt(Percent)) : p \in RentalYieldPercentInputs}
  /\ zx_loan_tenure_years \in TenureYearsInputs
  /\ traditional_interest_rate \in {RDiv(p, RInt(Percent)) : p \in InterestRatePercentInputs}
  /\ traditional_loan_tenure_years \in TenureYearsInputs
  /\ zx_loan_tenure_months = 0
  /\ traditional_loan_tenure_months = 0
  /\ traditional_principal_amount = R0
  /\ zx = ZxFrame0
  /\ trad = TradFrame0
  /\ zx_simulation_df = Unbound /\ zx_metrics = Unbound
  /\ traditional_simulation_df = Unbound /\ traditional_metrics = Unbound
  /\ metrics_data = Unbound /\ total_savings = Unbound
  /\ simulation_data_xlsx = Unbound

\* ---- main: validation (lines 22-43) --------------------------------------
ContributionRejected == RLe(property_price, customer_initial_contribution)
YieldRejected == RLe(annual_rental_yield, R0) \/ RLe(R1, annual_rental_yield)
\* a validation that looks at the first tenure only
TenureRejectedZxOnly == zx_loan_tenure_years <= 0
TenureRejected == zx_loan_tenure_years <= 0 \/ traditional_loan_tenure_years <= 0

\* int(years * 12)
TenureMonths(years) == years * MonthsPerYear

Validate ==
  /\ pc = "main"
  /\ IF ContributionRejected \/ YieldRejected \/ TenureRejected
     THEN /\ pc' = "error"
          /\ UNCHANGED <<months, zx>>
     ELSE /\ zx_loan_tenure_months' = TenureMonths(zx_loan_tenure_years)
          /\ traditional_loan_tenure_months' = TenureMonths(traditional_loan_tenure_years)
          /\ zx' = [ZxFrame0 EXCEPT
                      !.property_price = property_price,
                      !.customer_initial_contribution = customer_initial_contribution,
                      !.annual_rental_yield = annual_rental_yield,
                      !.loan_tenure_months = TenureMonths(zx_loan_tenure_years)]
          /\ pc' = "zx_simulator"
  /\ UNCHANGED <<traceback, inputs, traditional_principal_amount, trad,
                 zx_results, trad_results, shown>>

\* ---- zx_simulator (lines 120-187) ----------------------------------------
MonthlyRate(annual) == RDiv(annual, RInt(MonthsPerYear))
Compound(r, T) == RPow(RAdd(R1, r), T)

ZxEMIDivisor(r, T) == RSub(Compound(r, T), R1)
\* the payment without (1 + r) ** T in the numerator
ZxEMIWithoutCompounding(nbfc_initial_contribution, r, T) ==
  RDiv(RMul(nbfc_initial_contribution, r), ZxEMIDivisor(r, T))
ZxEMI(nbfc_initial_contribution, r, T) ==
  RDiv(RMul(RMul(nbfc_initial_contribution, r), Compound(r, T)), ZxEMIDivisor(r, T))

ZxBegin ==
  /\ pc = "zx_simulator"
  /\ LET nbfc_initial_contribution ==
           RSub(zx.property_price, zx.customer_initial_contribution)
         monthly_rental_rate == MonthlyRate(zx.annual_rental_yield)
         T == zx.loan_tenure_months
         r == monthly_rental_rate
     IN  IF ZxEMIDivisor(r, T) = R0
         THEN /\ pc' = "crash"
              /\ traceback' = "ZeroDivisionError zx_simulator:128"
              /\ zx' = [zx EXCEPT !.nbfc_initial_contribution = nbfc_initial_contribution,
                                  !.monthly_rental_rate = monthly_rental_rate,
                                  !.T = T, !.r = r]
         ELSE /\ pc' = "zx_loop"
              /\ traceback' = traceback
              /\ zx' = [zx EXCEPT !.nbfc_initial_contribution = nbfc_initial_contribution,
                                  !.monthly_rental_rate = monthly_rental_rate,
                                  !.T = T, !.r = r,
                                  !.EMI = ZxEMI(nbfc_initial_contribution, r, T),
                                  !.nbfc_share_value = nbfc_initial_contribution,
                                  !.customer_share_value = zx.customer_initial_contribution]
  /\ UNCHANGED <<inputs, months, traditional_principal_amount, trad,
                 zx_results, trad_results, shown>>

ZxRentalIncome(nbfc_share_value, r) == RMul(nbfc_share_value, r)
\* the whole payment taken as buyback
ZxBuybackAmountWholeEMI(EMI, rental_income) == EMI
ZxBuybackAmount(EMI, rental_income) == RSub(EMI, rental_income)
\* += for -=
ZxNbfcShareAfterSignSlip(nbfc_share_value, buyback_amount) ==
  RAdd(nbfc_share_value, buyback_amount)
ZxNbfcShareAfter(nbfc_share_value, buyback_amount) == RSub(nbfc_share_value, buyback_amount)
\* -= for +=
ZxCustomerShareAfterSignSlip(customer_share_value, buyback_amount) ==
  RSub(customer_share_value, buyback_amount)
ZxCustomerShareAfter(customer_share_value, buyback_amount) ==
  RAdd(customer_share_value, buyback_amount)
SharePercentage(share_value, price) == RMul(RDiv(share_value, price), RInt(Percent))

\* range(1, T) for range(1, T + 1)
ZxLoopDoneOneShort(n, T) == n >= T - 1
\* range(1, T + 1) is exhausted after n
ZxLoopDone(n, T) == n >= T

ZxIterate ==
  /\ pc = "zx_loop"
  /\ ~ZxLoopDone(zx.n, zx.T)
  /\ LET n == zx.n + 1
         rental_income == ZxRentalIncome(zx.nbfc_share_value, zx.r)
         buyback_amount == ZxBuybackAmount(zx.EMI, rental_income)
         nbfc_share_value == ZxNbfcShareAfter(zx.nbfc_share_value, buyback_amount)
         customer_share_value == ZxCustomerShareAfter(zx.customer_share_value, buyback_amount)
         stored == [zx EXCEPT !.n = n,
                              !.nbfc_share_value = nbfc_share_value,
                              !.customer_share_value = customer_share_value,
                              !.months = Append(@, n),
                              !.emi_list = Append(@, zx.EMI),
                              !.rental_income_list = Append(@, rental_income),
                              !.buyback_amount_list = Append(@, buyback_amount)]
     IN  IF zx.property_price = R0
         THEN /\ pc' = "crash"
              /\ traceback' = "ZeroDivisionError zx_simulator:156"
              /\ zx' = stored
         ELSE /\ pc' = pc
              /\ traceback' = traceback
              /\ zx' = [stored EXCEPT
                   !.nbfc_share_percentage_list =
                       Append(@, SharePercentage(nbfc_share_value, zx.property_price)),
                   !.customer_share_percentage_list =
                       Append(@, SharePercentage(customer_share_value, zx.property_price)),
                   !.nbfc_share_value_list = Append(@, nbfc_share_value),
                   !.customer_share_value_list = Append(@, customer_share_value)]
  /\ UNCHANGED <<inputs, months, traditional_principal_amount, trad,
                 zx_results, trad_results, shown>>

\* Series.sum()
ColumnSum(col0) == Let(col0, LAMBDA col : RSumAt(col, 1, R0))

ZxDataFrame(f) ==
  [c \in {"Month", "EMI (INR)", "Rental Income (INR)", "Buyback Amount (INR)",
          "NBFC Ownership (%)", "Customer Ownership (%)",
          "NBFC Share Value (INR)", "Customer Share Value (INR)"} |->
     CASE c = "Month" -> f.months
       [] c = "EMI (INR)" -> f.emi_list
       [] c = "Rental Income (INR)" -> f.rental_income_list
       [] c = "Buyback Amount (INR)" -> f.buyback_amount_list
       [] c = "NBFC Ownership (%)" -> f.nbfc_share_percentage_list
       [] c = "Customer Ownership (%)" -> f.customer_share_percentage_list
       [] c = "NBFC Share Value (INR)" -> f.nbfc_share_value_list
       [] c = "Customer Share Value (INR)" -> f.customer_share_value_list]

ZxBankProfit(total_rental_income) == total_rental_income

ZxMetrics(simulation_df, EMI) ==
  LET total_emi_paid == ColumnSum(simulation_df["EMI (INR)"])
      total_rental_income == ColumnSum(simulation_df["Rental Income (INR)"])
      total_buyback_amount == ColumnSum(simulation_df["Buyback Amount (INR)"])
  IN  [monthly_payment |-> EMI,
       total_emi_paid |-> total_emi_paid,
       total_rental_income |-> total_rental_income,
       total_buyback_amount |-> total_buyback_amount,
       bank_profit |-> ZxBankProfit(total_rental_income)]

ZxFinish ==
  /\ pc = "zx_loop"
  /\ ZxLoopDone(zx.n, zx.T)
  /\ zx_simulation_df' = Bound(ZxDataFrame(zx))
  /\ zx_metrics' = Bound(ZxMetrics(ZxDataFrame(zx), zx.EMI))
  /\ pc' = "zx_return"
  /\ UNCHANGED <<traceback, inputs, months, traditional_principal_amount, zx, trad,
                 trad_results, shown>>

\* ---- main: the second call (lines 45-51) -----------------------------------
CallTraditional ==
  /\ pc = "zx_return"
  /\ LET principal == RSub(property_price, customer_initial_contribution)
     IN  /\ traditional_principal_amount' = principal
         /\ trad' = [TradFrame0 EXCEPT
                       !.principal_amount = principal,
                       !.annual_interest_rate = traditional_interest_rate,
                       !.loan_tenure_months = traditional_loan_tenure_months]
  /\ pc' = "traditional_loan_simulator"
  /\ UNCHANGED <<traceback, inputs, months, zx, zx_results, trad_results, shown>>

\* ---- traditional_loan_simulator (lines 189-243) ----------------------------
TradEMIDivisor(r, T) == RSub(Compound(r, T), R1)
\* the payment without (1 + r) ** T in the numerator
TradEMIWithoutCompounding(principal_amount, r, T) ==
  RDiv(RMul(principal_amount, r), TradEMIDivisor(r, T))
TradEMI(principal_amount, r, T) ==
  RDiv(RMul(RMul(principal_amount, r), Compound(r, T)), TradEMIDivisor(r, T))

TradBegin ==
  /\ pc = "traditional_loan_simulator"
  /\ LET r == MonthlyRate(trad.annual_interest_rate)
         T == trad.loan_tenure_months
     IN  IF TradEMIDivisor(r, T) = R0
         THEN /\ pc' = "crash"
              /\ traceback' = "ZeroDivisionError traditional_loan_simulator:195"
              /\ trad' = [trad EXCEPT !.r = r, !.T = T]
         ELSE /\ pc' = "trad_loop"
              /\ traceback' = traceback
              /\ trad' = [trad EXCEPT !.r = r, !.T = T,
                                      !.EMI = TradEMI(trad.principal_amount, r, T),
                                      !.outstanding_balance = trad.principal_amount]
  /\ UNCHANGED <<inputs, months, traditional_principal_amount, zx,
                 zx_results, trad_results, shown>>

TradInterestPayment(outstanding_balance, r) == RMul(outstanding_balance, r)
TradPrincipalPayment(EMI, interest_payment) == RSub(EMI, interest_payment)
\* += for -=
TradBalanceAfterSignSlip(outstanding_balance, principal_payment) ==
  RAdd(outstanding_balance, principal_payment)
TradBalanceAfter(outstanding_balance, principal_payment) ==
  RSub(outstanding_balance, principal_payment)
TradLoopDone(n, T) == n >= T

TradIterate ==
  /\ pc = "trad_loop"
  /\ ~TradLoopDone(trad.n, trad.T)
  /\ LET n == trad.n + 1
         interest_payment == TradInterestPayment(trad.outstanding_balance, trad.r)
         principal_payment == TradPrincipalPayment(trad.EMI, interest_payment)
         outstanding_balance == TradBalanceAfter(trad.outstanding_balance, principal_payment)
     IN  trad' = [trad EXCEPT !.n = n,
                              !.outstanding_balance = outstanding_balance,
                              !.months = Append(@, n),
                              !.emi_list = Append(@, trad.EMI),
                              !.interest_paid_list = Append(@, interest_payment),
                              !.principal_paid_list = Append(@, principal_payment),
                              !.outstanding_balance_list = Append(@, outstanding_balance)]
  /\ UNCHANGED <<pc, traceback, inputs, months, traditional_principal_amount, zx,
                 zx_results, trad_results, shown>>

TradDataFrame(f) ==
  [c \in {"Month", "EMI (INR)", "Interest Paid (INR)", "Principal Paid (INR)",
          "Outstanding Balance (INR)"} |->
     CASE c = "Month" -> f.months
       [] c = "EMI (INR)" -> f.emi_list
       [] c = "Interest Paid (INR)" -> f.interest_paid_list
       [] c = "Principal Paid (INR)" -> f.principal_paid_list
       [] c = "Outstanding Balance (INR)" -> f.outstanding_balance_list]

TradBankProfit(total_interest_paid) == total_interest_paid

TradMetrics(simulation_df, EMI) ==
  LET total_emi_paid == ColumnSum(simulation_df["EMI (INR)"])
      total_interest_paid == ColumnSum(simulation_df["Interest Paid (INR)"])
      total_principal_paid == ColumnSum(simulation_df["Principal Paid (INR)"])
  IN  [monthly_payment |-> EMI,
       total_emi_paid |-> total_emi_paid,
       total_interest_paid |-> total_interest_paid,
       total_principal_paid |-> total_principal_paid,
       bank_profit |-> TradBankProfit(total_interest_paid)]

TradFinish ==
  /\ pc = "trad_loop"
  /\ TradLoopDone(trad.n, trad.T)
  /\ traditional_simulation_df' = Bound(TradDataFrame(trad))
  /\ traditional_metrics' = Bound(TradMetrics(TradDataFrame(trad), trad.EMI))
  /\ pc' = "trad_return"
  /\ UNCHANGED <<traceback, inputs, months, traditional_principal_amount, zx, trad,
                 zx_results, shown>>

\* ---- main: display and download (lines 53-118, 323-334) --------------------
\* The charts hold no state of their own and are left out.
MetricsData(zm, tm) ==
  [Metric |-> <<"Monthly Payment", "Total EMI Paid", "Total Interest/Rental Paid",
                "Total Principal/Buyback Paid", "Total Payment", "Bank Profit">>,
   ZepharaXcel |-> <<zm.monthly_payment, zm.total_emi_paid, zm.total_rental_income,
                     zm.total_buyback_amount, zm.total_emi_paid, zm.bank_profit>>,
   Traditional |-> <<tm.monthly_payment, tm.total_emi_paid, tm.total_interest_paid,
                     tm.total_principal_paid, tm.total_emi_paid, tm.bank_profit>>]

Display ==
  /\ pc = "trad_return"
  /\ metrics_data' = Bound(MetricsData(zx_metrics[1], traditional_metrics[1]))
  /\ total_savings' =
       Bound(RSub(traditional_metrics[1].total_emi_paid, zx_metrics[1].total_emi_paid))
  /\ simulation_data_xlsx' =
       Bound([ZepharaXcelModel |-> zx_simulation_df[1],
              TraditionalLoanModel |-> traditional_simulation_df[1]])
  /\ pc' = "done"
  /\ UNCHANGED <<traceback, inputs, months, traditional_principal_amount, zx, trad,
                 zx_results, trad_results>>

Next ==
  \/ Validate
  \/ ZxBegin
  \/ ZxIterate
  \/ ZxFinish
  \/ CallTraditional
  \/ TradBegin
  \/ TradIterate
  \/ TradFinish
  \/ Display

Spec == Init /\ [][Next]_vars

\* ---- the simulators called on their own ------------------------------------
\* zx_simulator and traditional_loan_simulator are module-level functions of
\* their arguments alone.  SpecSim calls each of them once on arguments drawn
\* from the sets below, with terms of 1..MaxMonths periods.
SimPropertyPrices == {RInt(100), RInt(10000000)}
SimContributions == {RInt(0), RInt(20)}
SimRentalYields == {RFrac(7, 200), RFrac(3, 5)}
SimPrincipals == {RInt(80), RInt(100)}
SimInterestRates == {R0, RFrac(7, 100), RFrac(3, 5)}
SimTerms == 1..MaxMonths

SimZxCalls ==
  {[ZxFrame0 EXCEPT !.property_price = p, !.customer_initial_contribution = c,
                    !.annual_rental_yield = y, !.loan_tenure_months = T] :
     p \in SimPropertyPrices, c \in SimContributions, y \in SimRentalYields,
     T \in SimTerms}
SimTradCalls ==
  {[TradFrame0 EXCEPT !.principal_amount = p, !.annual_interest_rate = a,
                      !.loan_tenure_months = T] :
     p \in SimPrincipals, a \in SimInterestRates, T \in SimTerms}

InitSim ==
  /\ traceback = ""
  /\ property_price = R0 /\ customer_initial_contribution = R0
  /\ annual_rental_yield = R0 /\ zx_loan_tenure_years = 0
  /\ traditional_interest_rate = R0 /\ traditional_loan_tenure_years = 0
  /\ zx_loan_tenure_months = 0
  /\ traditional_loan_tenure_months = 0
  /\ traditional_principal_amount = R0
  /\ \/ pc = "zx_simulator" /\ zx \in SimZxCalls /\ trad = TradFrame0
     \/ pc = "traditional_loan_simulator" /\ zx = ZxFrame0 /\ trad \in SimTradCalls
  /\ zx_simulation_df = Unbound /\ zx_metrics = Unbound
  /\ traditional_simulation_df = Unbound /\ traditional_metrics = Unbound
  /\ metrics_data = Unbound /\ total_savings = Unbound
  /\ simulation_data_xlsx = Unbound

NextSim ==
  \/ ZxBegin
  \/ ZxIterate
  \/ ZxFinish
  \/ TradBegin
  \/ TradIterate
  \/ TradFinish

SpecSim == InitSim /\ [][NextSim]_vars

\* ------------------------------------------------------------------------
\* Properties of the simulators (SpecSim).  They are stated on the frames, so
\* they constrain every prefix of a schedule as it is built, and on what the
\* simulators return.
\* ------------------------------------------------------------------------
Rows(col) == 1..Len(col)
RowBefore(col, i, first) == IF i = 1 THEN first ELSE col[i - 1]
Total(col) == RSumAt(col, 1, R0)

\* the inputs of section 4.2: 0 <= contribution < price, 0 < yield < 1, T >= 1
ZxValidInput ==
  /\ RLe(R0, zx.customer_initial_contribution)
  /\ RLt(zx.customer_initial_contribution, zx.property_price)
  /\ RLt(R0, zx.annual_rental_yield) /\ RLt(zx.annual_rental_yield, R1)
  /\ zx.loan_tenure_months >= 1
ZxStarted == pc \in {"zx_loop", "zx_return"}

\* principal > 0, annual_interest_rate > 0, T >= 1
TradPositiveInput ==
  /\ RLt(R0, trad.principal_amount)
  /\ RLt(R0, trad.annual_interest_rate)
  /\ trad.loan_tenure_months >= 1
TradStarted == pc \in {"trad_loop", "trad_return"}

\* C1: in zx_simulator, for every valid input, in every emitted row the NBFC
\* share value plus the customer share value is property_price and the two
\* ownership percentages add up to 100.
C1_SharesSumToPrice ==
  (ZxStarted /\ ZxValidInput) =>
    \A i \in Rows(zx.nbfc_share_value_list) :
      /\ RAdd(zx.nbfc_share_value_list[i], zx.customer_share_value_list[i])
           = zx.property_price
      /\ RAdd(zx.nbfc_share_percentage_list[i], zx.customer_share_percentage_list[i])
           = RInt(100)
C1_Witness ==
  /\ pc = "zx_return" /\ ZxValidInput
  /\ Len(zx.nbfc_share_value_list) >= 2
  /\ Len(zx.customer_share_percentage_list) >= 2

\* C2: in traditional_loan_simulator, for principal > 0, rate > 0 and T >= 1,
\* the outstanding balance recorded in row T is zero.
C2_FinalBalanceZero ==
  (TradStarted /\ TradPositiveInput /\ trad.n = trad.T) =>
    /\ Len(trad.outstanding_balance_list) = trad.T
    /\ trad.outstanding_balance_list[trad.T] = R0
C2_Witness ==
  /\ pc = "trad_return" /\ TradPositiveInput /\ trad.T >= 2
  /\ traditional_simulation_df[1]["Outstanding Balance (INR)"][trad.T] = R0

\* C3: in traditional_loan_simulator, for a positive rate (and principal), the
\* balance after each period is strictly below the balance before it, the
\* balance before period 1 being the principal: the principal paid in every
\* period is strictly positive.
C3_BalanceStrictlyDecreasing ==
  (TradStarted /\ TradPositiveInput) =>
    \A i \in Rows(trad.outstanding_balance_list) :
      /\ RLt(trad.outstanding_balance_list[i],
             RowBefore(trad.outstanding_balance_list, i, trad.principal_amount))
      /\ RLt(R0, trad.principal_paid_list[i])
C3_Witness ==
  /\ pc = "trad_loop" /\ TradPositiveInput /\ trad.n >= 2
  /\ RLt(trad.outstanding_balance_list[2], trad.outstanding_balance_list[1])

\* C4: in both simulators every row has payment = interest or rental +
\* principal or buyback; the totals returned reconcile the same way,
\* total_emi_paid is T * monthly_payment and bank_profit is the total of the
\* interest or rental column.
C4_ZxReconciles ==
  /\ ZxStarted =>
       \A i \in Rows(zx.emi_list) :
         zx.emi_list[i] = RAdd(zx.rental_income_list[i], zx.buyback_amount_list[i])
  /\ zx_metrics # Unbound =>
       /\ zx_metrics[1].total_emi_paid
            = RAdd(zx_metrics[1].total_rental_income, zx_metrics[1].total_buyback_amount)
       /\ zx_metrics[1].total_emi_paid = RMul(RInt(zx.T), zx_metrics[1].monthly_payment)
       /\ zx_metrics[1].bank_profit = Total(zx_simulation_df[1]["Rental Income (INR)"])
C4_TradReconciles ==
  /\ TradStarted =>
       \A i \in Rows(trad.emi_list) :
         trad.emi_list[i] = RAdd(trad.interest_paid_list[i], trad.principal_paid_list[i])
  /\ traditional_metrics # Unbound =>
       /\ traditional_metrics[1].total_emi_paid
            = RAdd(traditional_metrics[1].total_interest_paid,
                   traditional_metrics[1].total_principal_paid)
       /\ traditional_metrics[1].total_emi_paid
            = RMul(RInt(trad.T), traditional_metrics[1].monthly_payment)
       /\ traditional_metrics[1].bank_profit
            = Total(traditional_simulation_df[1]["Interest Paid (INR)"])
C4_RowsAndTotalsReconcile == C4_ZxReconciles /\ C4_TradReconciles
C4_Witness ==
  /\ zx_metrics # Unbound /\ ZxValidInput /\ zx.T >= 2
  /\ RLt(R0, zx_metrics[1].total_rental_income)
  /\ RLt(R0, zx_metrics[1].total_buyback_amount)

\* C8: in zx_simulator, for every valid input, the buyback amount of every
\* period is >= 0, so the NBFC share value of a row is at most that of the row
\* before and the customer share value at least that of the row before, row
\* 0 being the initial contributions.
C8_SharesMonotone ==
  (ZxStarted /\ ZxValidInput) =>
    \A i \in Rows(zx.buyback_amount_list) :
      /\ RLe(R0, zx.buyback_amount_list[i])
      /\ RLe(zx.nbfc_share_value_list[i],
             RowBefore(zx.nbfc_share_value_list, i, zx.nbfc_initial_contribution))
      /\ RLe(RowBefore(zx.customer_share_value_list, i, zx.customer_initial_contribution),
             zx.customer_share_value_list[i])
C8_Witness ==
  /\ pc = "zx_loop" /\ ZxValidInput /\ zx.n >= 2
  /\ RLt(R0, zx.buyback_amount_list[2])
  /\ RLt(zx.nbfc_share_value_list[2], zx.nbfc_share_value_list[1])

\* C9: each simulator emits exactly T rows, Month running 1, 2, ..., T; every
\* row carries the payment computed before the loop, which is also
\* monthly_payment; and a row holds the running state after that period's
\* update, the state before it less the principal or buyback of the row.
C9_ZxSchedule ==
  /\ ZxStarted =>
       /\ zx.months = [i \in 1..zx.n |-> i]
       /\ zx.n <= zx.T
       /\ \A c \in DOMAIN ZxDataFrame(zx) : Len(ZxDataFrame(zx)[c]) = zx.n
       /\ \A i \in Rows(zx.emi_list) :
            /\ zx.emi_list[i] = zx.EMI
            /\ zx.nbfc_share_value_list[i]
                 = RSub(RowBefore(zx.nbfc_share_value_list, i, zx.nbfc_initial_contribution),
                        zx.buyback_amount_list[i])
       /\ zx.n >= 1 =>
            /\ zx.nbfc_share_value_list[zx.n] = zx.nbfc_share_value
            /\ zx.customer_share_value_list[zx.n] = zx.customer_share_value
  /\ zx_simulation_df # Unbound =>
       /\ zx_simulation_df[1]["Month"] = [i \in 1..zx.T |-> i]
       /\ \A c \in DOMAIN zx_simulation_df[1] : Len(zx_simulation_df[1][c]) = zx.T
       /\ zx_metrics[1].monthly_payment = zx.EMI
       /\ \A i \in 1..zx.T : zx_simulation_df[1]["EMI (INR)"][i] = zx.EMI
C9_TradSchedule ==
  /\ TradStarted =>
       /\ trad.months = [i \in 1..trad.n |-> i]
       /\ trad.n <= trad.T
       /\ \A c \in DOMAIN TradDataFrame(trad) : Len(TradDataFrame(trad)[c]) = trad.n
       /\ \A i \in Rows(trad.emi_list) :
            /\ trad.emi_list[i] = trad.EMI
            /\ trad.outstanding_balance_list[i]
                 = RSub(RowBefore(trad.outstanding_balance_list, i, trad.principal_amount),
                        trad.principal_paid_list[i])
       /\ trad.n >= 1 => trad.outstanding_balance_list[trad.n] = trad.outstanding_balance
  /\ traditional_simulation_df # Unbound =>
       /\ traditional_simulation_df[1]["Month"] = [i \in 1..trad.T |-> i]
       /\ \A c \in DOMAIN traditional_simulation_df[1] :
            Len(traditional_simulation_df[1][c]) = trad.T
       /\ traditional_metrics[1].monthly_payment = trad.EMI
       /\ \A i \in 1..trad.T : traditional_simulation_df[1]["EMI (INR)"][i] = trad.EMI
C9_RowsInOrder == C9_ZxSchedule /\ C9_TradSchedule
C9_Witness ==
  /\ pc = "trad_return"
  /\ Len(traditional_simulation_df[1]["Month"]) >= 3
  /\ traditional_simulation_df[1]["Month"][3] = 3
  /\ traditional_metrics[1].monthly_payment # R0

\* C10: in zx_simulator, for every valid input, in every row the NBFC share
\* value lies between 0 and the NBFC's initial contribution, the customer share
\* value between the customer's initial contribution and property_price, and
\* both percentages between 0 and 100; in row T the NBFC share value is 0 and
\* the customer share value is property_price; total_buyback_amount is
\* property_price - customer_initial_contribution.
Between(lo, x, hi) == RLe(lo, x) /\ RLe(x, hi)
C10_TransferCompletesAtT ==
  (ZxStarted /\ ZxValidInput) =>
    /\ \A i \in Rows(zx.nbfc_share_value_list) :
         /\ Between(R0, zx.nbfc_share_value_list[i], zx.nbfc_initial_contribution)
         /\ Between(zx.customer_initial_contribution, zx.customer_share_value_list[i],
                    zx.property_price)
         /\ Between(R0, zx.nbfc_share_percentage_list[i], RInt(100))
         /\ Between(R0, zx.customer_share_percentage_list[i], RInt(100))
    /\ zx.n = zx.T =>
         /\ zx.nbfc_share_value_list[zx.T] = R0
         /\ zx.customer_share_value_list[zx.T] = zx.property_price
    /\ zx_metrics # Unbound =>
         zx_metrics[1].total_buyback_amount
           = RSub(zx.property_price, zx.customer_initial_contribution)
C10_Witness ==
  /\ pc = "zx_return" /\ ZxValidInput /\ zx.T >= 2
  /\ RLt(R0, zx.customer_initial_contribution)
  /\ zx.nbfc_share_value = R0
  /\ RLt(R0, zx.nbfc_share_value_list[1])
  /\ zx_metrics[1].total_buyback_amount = zx.nbfc_initial_contribution

\* ------------------------------------------------------------------------
\* Properties of a run of main (Spec)
\* ------------------------------------------------------------------------
\* C5: a simulation with annual rate 0, principal P > 0 and T >= 1 periods
\* has monthly_payment = P / T, and the division by zero in the payment
\* formula is not surfaced as an error.  The code has no branch for rate 0:
\* TLC finds the run that ends in ZeroDivisionError at line 195.
C5_ZeroRatePaysPrincipalOverT ==
  (/\ pc \in {"trad_loop", "trad_return", "done", "crash"}
   /\ trad.annual_interest_rate = R0
   /\ RLt(R0, trad.principal_amount)
   /\ trad.T >= 1) =>
    /\ traceback = ""
    /\ trad.EMI = RDiv(trad.principal_amount, RInt(trad.T))
    /\ traditional_metrics # Unbound =>
         traditional_metrics[1].monthly_payment = RDiv(trad.principal_amount, RInt(trad.T))

\* C6: when customer_initial_contribution >= property_price, or the annual
\* yield is <= 0 or >= 1, or a term in periods is <= 0, the run ends in the
\* error outcome and neither simulator is entered: no frame is set up, no
\* schedule row and no metrics exist.
C6_InvalidInput ==
  \/ RSign(RSub(customer_initial_contribution, property_price)) >= 0
  \/ RSign(annual_rental_yield) <= 0
  \/ RSign(RSub(annual_rental_yield, RInt(1))) >= 0
  \/ zx_loan_tenure_years * 12 <= 0
  \/ traditional_loan_tenure_years * 12 <= 0
C6_InvalidInputsRejected ==
  C6_InvalidInput =>
    /\ pc \in {"main", "error"}
    /\ traceback = ""
    /\ zx = ZxFrame0 /\ trad = TradFrame0
    /\ zx_simulation_df = Unbound /\ zx_metrics = Unbound
    /\ traditional_simulation_df = Unbound /\ traditional_metrics = Unbound
    /\ metrics_data = Unbound /\ simulation_data_xlsx = Unbound
C6_Witness ==
  /\ pc = "error"
  /\ zx_loan_tenure_years > 0
  /\ traditional_loan_tenure_years <= 0
  /\ RLt(customer_initial_contribution, property_price)
  /\ RLt(R0, annual_rental_yield) /\ RLt(annual_rental_yield, R1)

\* C7: once the validation at entry has passed, no arithmetic error occurs:
\* both simulators run to completion.  Nothing validates the traditional
\* interest rate or the sign of the property price: TLC finds the runs that
\* pass validation and end in ZeroDivisionError.
C7_NoErrorAfterValidation ==
  pc \notin {"main", "error"} =>
    /\ pc # "crash"
    /\ traceback = ""
    /\ pc = "done" =>
         /\ Len(zx_simulation_df[1]["Month"]) = zx_loan_tenure_months
         /\ Len(traditional_simulation_df[1]["Month"]) = traditional_loan_tenure_months
         /\ zx_metrics # Unbound /\ traditional_metrics # Unbound
====
